---- MODULE Spec2Model ----
(***************************************************************************)
(* Model of src/frontend/app.py: the Streamlit front end that loads an     *)
(* uploaded table, posts it to the prediction back end, reconciles the     *)
(* returned predictions with the rows and builds the export table.         *)
(*                                                                         *)
(* One run of main() is modelled as two consecutive steps, Sidebar (lines  *)
(* 74-119) followed by Render or Predict (lines 121-292); pc sequences     *)
(* them, so nothing interleaves with a run.  st.session_state is the       *)
(* variables uploaded, file_bytes, df and results.  Python's None is the   *)
(* empty tuple and a present value x is <<x>>.                             *)
(***************************************************************************)
EXTENDS Integers, Sequences, FiniteSets, TLC

VARIABLES
    uploaded,     \* st.session_state.uploaded: None or Some(UploadedFile object)
    file_bytes,   \* st.session_state.file_bytes: None or Some(bytes)
    df,           \* st.session_state.df: None or Some(table)
    results,      \* st.session_state.results: None or Some(result dict)
    pc,           \* position of the script: "idle" (between runs) or "content"
    widget,       \* what st.file_uploader returned in the current run
    clicked,      \* the predict button's trigger delivered with the current run
    msgs,         \* st.error / st.warning messages emitted in the current run
    posted,       \* the multipart request sent in the current run, or None
    resp,         \* the network exchange of the current run, or None
    out_df,       \* the export table built in the current run, or None
    buttonShown,  \* whether the last completed run rendered the predict button
    resultsFor    \* history: the UploadedFile object the stored results were computed for

vars == <<uploaded, file_bytes, df, results, pc, widget, clicked, msgs,
          posted, resp, out_df, buttonShown, resultsFor>>

----------------------------------------------------------------------------
(* Bounds *)

MaxRows == 2

MaxPreds == 3

(* Program constants *)

HTTP_OK == 200

EXCERPT == 400

----------------------------------------------------------------------------
(* Python values *)

None == <<>>

Some(x) == <<x>>

Min(a, b) == IF a <= b THEN a ELSE b

----------------------------------------------------------------------------
(* Uploads: a filename and a byte buffer.  A buffer is described by what   *)
(* the pandas readers make of it: its format, its length and the table it  *)
(* encodes (None when it encodes none).                                    *)

Lower(ext) == IF ext = ".CSV" THEN ".csv" ELSE ext

BaseColumns == <<"Feature_1", "Feature_2">>

ScoredColumns == <<"Feature_1", "Prediction">>

TableOf(cols, k) == [columns |-> cols, rows |-> [i \in 1..k |-> <<i, 10 + i>>]]

Buffer(fmt, t) == [fmt |-> fmt, len |-> 1 + Len(t.rows), table |-> Some(t)]

Uploads ==
    {[name |-> [stem |-> "data", ext |-> ".csv"],
      bytes |-> Buffer("csv", TableOf(BaseColumns, k))] : k \in 0..MaxRows}
    \cup
    {[name |-> [stem |-> "scored", ext |-> ".CSV"],
      bytes |-> Buffer("csv", TableOf(ScoredColumns, MaxRows))],
     [name |-> [stem |-> "book", ext |-> ".xlsx"],
      bytes |-> Buffer("excel", TableOf(BaseColumns, 1))],
     [name |-> [stem |-> "old", ext |-> ".xls"],
      bytes |-> [fmt |-> "garbage", len |-> 1, table |-> None]],
     [name |-> [stem |-> "empty", ext |-> ".csv"],
      bytes |-> [fmt |-> "csv", len |-> 0, table |-> None]],
     [name |-> [stem |-> "notes", ext |-> ".txt"],
      bytes |-> [fmt |-> "garbage", len |-> 1, table |-> None]]}

(* st.file_uploader returns an UploadedFile object, or None.  Line 106     *)
(* compares objects by identity, so an object is a file together with an   *)
(* identity; whether a rerun hands back the object of the previous run or  *)
(* a new object for the same file is decided by Streamlit, not by app.py.  *)
Objs == {0, 1}

WidgetValues == {None} \cup {Some([file |-> f, obj |-> o]) : f \in Uploads, o \in Objs}

----------------------------------------------------------------------------
(* detect_mime, lines 17-25 *)

detect_mime(filename) ==
    LET name == Lower(filename.ext) IN
    IF name = ".csv" THEN "text/csv"
    ELSE IF name = ".xlsx"
         THEN "application/vnd.openxmlformats-officedocument.spreadsheetml.sheet"
    ELSE IF name = ".xls" THEN "application/vnd.ms-excel"
    ELSE "application/octet-stream"

(* pd.read_csv / pd.read_excel on a buffer: the table, or None for a raise *)
(* (an empty buffer, or bytes that are not of the reader's format).        *)
read_csv(b) == IF b.len = 0 \/ b.fmt # "csv" THEN None ELSE b.table

read_excel(b) == IF b.len = 0 \/ b.fmt # "excel" THEN None ELSE b.table

ErrUnsupported == [level |-> "error", kind |-> "UnsupportedFormat"]

ErrLoad == [level |-> "error", kind |-> "LoadError"]

(* load_df_from_bytes, lines 28-41: the DataFrame or None, and what it     *)
(* reported with st.error.                                                 *)
load_df_from_bytes(bytes, filename) ==
    LET ext == Lower(filename.ext) IN
    IF ext = ".csv"
    THEN IF read_csv(bytes) = None
         THEN [df |-> None, msgs |-> <<ErrLoad>>]
         ELSE [df |-> read_csv(bytes), msgs |-> <<>>]
    ELSE IF ext \in {".xlsx", ".xls"}
    THEN IF read_excel(bytes) = None
         THEN [df |-> None, msgs |-> <<ErrLoad>>]
         ELSE [df |-> read_excel(bytes), msgs |-> <<>>]
    ELSE [df |-> None, msgs |-> <<ErrUnsupported>>]

----------------------------------------------------------------------------
Init ==
    /\ uploaded = None
    /\ file_bytes = None
    /\ df = None
    /\ results = None
    /\ pc = "idle"
    /\ widget = None
    /\ clicked = FALSE
    /\ msgs = <<>>
    /\ posted = None
    /\ resp = None
    /\ out_df = None
    /\ buttonShown = FALSE
    /\ resultsFor = None

----------------------------------------------------------------------------
(* The session, as the record main() reads and writes. *)

Session == [uploaded |-> uploaded, file_bytes |-> file_bytes, df |-> df,
            results |-> results]

(* A mutation of lines 105-119: a new upload keeps the stored results. *)
SessionAfterUpload_KeepsResults(w, s) ==
    IF w # None
    THEN IF w # s.uploaded
         THEN LET loaded == load_df_from_bytes(w[1].file.bytes, w[1].file.name) IN
              [uploaded |-> w, file_bytes |-> Some(w[1].file.bytes),
               df |-> loaded.df, results |-> s.results, msgs |-> loaded.msgs]
         ELSE [uploaded |-> s.uploaded, file_bytes |-> s.file_bytes, df |-> s.df,
               results |-> s.results, msgs |-> <<>>]
    ELSE [uploaded |-> None, file_bytes |-> None, df |-> None, results |-> None,
          msgs |-> <<>>]

(* A mutation of lines 105-119: a load that fails keeps the previous table. *)
SessionAfterUpload_KeepsTable(w, s) ==
    IF w # None
    THEN IF w # s.uploaded
         THEN LET loaded == load_df_from_bytes(w[1].file.bytes, w[1].file.name) IN
              [uploaded |-> w, file_bytes |-> Some(w[1].file.bytes),
               df |-> IF loaded.df = None THEN s.df ELSE loaded.df,
               results |-> None, msgs |-> loaded.msgs]
         ELSE [uploaded |-> s.uploaded, file_bytes |-> s.file_bytes, df |-> s.df,
               results |-> s.results, msgs |-> <<>>]
    ELSE [uploaded |-> None, file_bytes |-> None, df |-> None, results |-> None,
          msgs |-> <<>>]

(* Lines 104-119, "Handle new/removed file": the session after the upload  *)
(* widget returned w.  `uploaded is not st.session_state.uploaded` is      *)
(* object identity: w differs from the stored object in its file or in its *)
(* identity.                                                               *)
SessionAfterUpload(w, s) ==
    IF w # None
    THEN IF w # s.uploaded
         THEN LET loaded == load_df_from_bytes(w[1].file.bytes, w[1].file.name) IN
              [uploaded |-> w, file_bytes |-> Some(w[1].file.bytes),
               df |-> loaded.df, results |-> None, msgs |-> loaded.msgs]
         ELSE [uploaded |-> s.uploaded, file_bytes |-> s.file_bytes, df |-> s.df,
               results |-> s.results, msgs |-> <<>>]
    ELSE [uploaded |-> None, file_bytes |-> None, df |-> None, results |-> None,
          msgs |-> <<>>]

(* main(), lines 74-119: a run starts with the upload widget returning w   *)
(* and the predict button's trigger c, which only a rendered button sends. *)
Sidebar(w, c) ==
    /\ pc = "idle"
    /\ c => buttonShown
    /\ LET s == SessionAfterUpload(w, Session) IN
       /\ uploaded' = s.uploaded
       /\ file_bytes' = s.file_bytes
       /\ df' = s.df
       /\ results' = s.results
       /\ msgs' = s.msgs
    /\ widget' = w
    /\ clicked' = c
    /\ posted' = None
    /\ resp' = None
    /\ out_df' = None
    /\ pc' = "content"
    /\ UNCHANGED <<buttonShown, resultsFor>>

----------------------------------------------------------------------------
(* What the back end can answer to the POST of line 48. *)

RECURSIVE SeqsUpTo(_, _)
SeqsUpTo(S, n) ==
    IF n = 0 THEN {<<>>}
    ELSE LET shorter == SeqsUpTo(S, n - 1) IN
         shorter \cup {Append(q, v) : q \in shorter, v \in S}

PredLists == SeqsUpTo({0, 1}, MaxPreds)

(* The "data" object of a body.  The predictions key may be absent; the   *)
(* two optional numbers are absent together or present together.          *)
DataDicts ==
    {[predictions |-> p, processing_time_seconds |-> o, num_predictions |-> o] :
        p \in {None} \cup {Some(q) : q \in PredLists}, o \in {None, Some(42)}}

JsonBody(kind, status, detail, message, data) ==
    [kind |-> kind, status |-> status, detail |-> detail, message |-> message,
     data |-> data]

(* JSON bodies: success bodies (the message is present when the numbers   *)
(* are), error bodies (among them the empty dict                          *)
(* and a detail that is present but empty), the lists [] and [1], and a    *)
(* body resp.json() cannot decode, raising either requests' JSONDecodeError *)
(* (a RequestException) or a plain ValueError, depending on the requests   *)
(* version.                                                                *)
Bodies ==
    {JsonBody("dict", Some("success"), None,
              IF d.num_predictions = None THEN None ELSE Some("done"), Some(d)) :
        d \in DataDicts}
    \cup {JsonBody("dict", Some("success"), None, None, None)}
    \cup {JsonBody("dict", st, dt, None, None) :
            st \in {None, Some("error")}, dt \in {None, Some(""), Some("bad file")}}
    \cup {JsonBody(k, None, None, None, None) :
            k \in {"empty_list", "list", "undecodable_RequestException",
                   "undecodable_ValueError"}}

NoBody == JsonBody("undecodable_ValueError", None, None, None, None)

Exchanges ==
    {[transport |-> t, content_type |-> "", status_code |-> 0, text_len |-> 0,
      json |-> NoBody] : t \in {"ConnectionError", "Timeout"}}
    \cup
    {[transport |-> "ok", content_type |-> ct, status_code |-> sc, text_len |-> n,
      json |-> NoBody] :
        ct \in {"text/html", ""}, sc \in {HTTP_OK, 500},
        n \in {0, EXCERPT, EXCERPT + 1}}
    \cup
    {[transport |-> "ok", content_type |-> "application/json", status_code |-> sc,
      text_len |-> 0, json |-> b] : sc \in {HTTP_OK, 500}, b \in Bodies}

(* round(time.time() - start, 3), line 210 *)
ElapsedTimes == {1, 2}

(* content-type.startswith("application/json"), line 50 *)
IsJsonType(ct) == ct = "application/json"

(* Python truthiness of a JSON body and of data.get("detail") *)
BodyTruthy(b) ==
    IF b.kind = "dict"
    THEN b.status # None \/ b.detail # None \/ b.message # None \/ b.data # None
    ELSE b.kind = "list"

DetailTruthy(dt) == dt # None /\ dt[1] # ""

ErrNetwork == [level |-> "error", kind |-> "NetworkError"]

ErrUnexpected == [level |-> "error", kind |-> "UnexpectedError"]

ErrResponse(sc, n) ==
    [level |-> "error", kind |-> "UnexpectedResponse", status_code |-> sc,
     excerpt_len |-> n]

ErrApi(sc, shown) ==
    [level |-> "error", kind |-> "ApiError", status_code |-> sc, shown |-> shown]

(* resp.text[:400], line 54: the length of the excerpt *)
Excerpt(n) == Min(n, EXCERPT)

(* A mutation of lines 50-63: the status code is tested before the         *)
(* content type, so a 200 answer that is not JSON is returned as data.     *)
send_to_api_StatusFirst(x) ==
    IF x.transport # "ok"
    THEN [data |-> None, msgs |-> <<ErrNetwork>>]
    ELSE IF x.status_code = HTTP_OK
    THEN [data |-> Some(x.json), msgs |-> <<>>]
    ELSE IF ~IsJsonType(x.content_type)
    THEN [data |-> None, msgs |-> <<ErrResponse(x.status_code, Excerpt(x.text_len))>>]
    ELSE [data |-> None, msgs |-> <<ErrApi(x.status_code, "data")>>]

(* send_to_api, lines 44-70, given the exchange x the POST turns out to be: *)
(* the returned data or None, and what it reported with st.error.          *)
send_to_api(x) ==
    IF x.transport # "ok"
    THEN [data |-> None, msgs |-> <<ErrNetwork>>]
    ELSE IF ~IsJsonType(x.content_type)
    THEN [data |-> None, msgs |-> <<ErrResponse(x.status_code, Excerpt(x.text_len))>>]
    ELSE IF x.json.kind = "undecodable_RequestException"
    THEN [data |-> None, msgs |-> <<ErrNetwork>>]
    ELSE IF x.json.kind = "undecodable_ValueError"
    THEN [data |-> None, msgs |-> <<ErrUnexpected>>]
    ELSE IF x.status_code = HTTP_OK
    THEN [data |-> Some(x.json), msgs |-> <<>>]
    ELSE LET detail == IF x.json.kind = "dict" THEN x.json.detail ELSE None IN
         [data |-> None,
          msgs |-> <<ErrApi(x.status_code,
                            IF DetailTruthy(detail) THEN "detail" ELSE "data")>>]

----------------------------------------------------------------------------
(* The predict branch of main(), lines 190-216 *)

WarnMismatch(p, r) ==
    [level |-> "warning", kind |-> "CountMismatch", predictions |-> p, rows |-> r]

ErrNoFile == [level |-> "error", kind |-> "NoFileLoaded"]

(* A mutation of line 199: only a surplus of predictions is warned about. *)
MismatchWarned_SurplusOnly(p, r) == p > r

(* len(preds) != len(st.session_state.df), line 199 *)
MismatchWarned(p, r) == p # r

(* A mutation of line 206: the last n predictions are kept. *)
KeptPredictions_Tail(preds, r) ==
    LET n == Min(Len(preds), r) IN SubSeq(preds, Len(preds) - n + 1, Len(preds))

(* n = min(len(preds), len(df)); preds[:n], lines 204-206 *)
KeptPredictions(preds, r) ==
    LET n == Min(Len(preds), r) IN SubSeq(preds, 1, n)

(* data and isinstance(data, dict) and data.get("status") == "success" *)
IsSuccessData(data) ==
    /\ data # None
    /\ BodyTruthy(data[1])
    /\ data[1].kind = "dict"
    /\ data[1].status = Some("success")

(* Lines 195-214: the result dict stored for a success body b when the     *)
(* table has r rows and the call took `elapsed`.                           *)
ResultDict(b, r, elapsed) ==
    LET preds == IF b.data = None \/ b.data[1].predictions = None
                 THEN <<>> ELSE b.data[1].predictions[1]
        proc == IF b.data = None THEN None ELSE b.data[1].processing_time_seconds
        num == IF b.data = None THEN None ELSE b.data[1].num_predictions
        n == Min(Len(preds), r)
    IN  [predictions |-> KeptPredictions(preds, r),
         processing_time |-> IF proc # None THEN proc[1] ELSE elapsed,
         num_predictions |-> IF num # None THEN num[1] ELSE n,
         message |-> IF b.message # None THEN b.message[1]
                     ELSE "Predictions generated"]

PredsOf(b) ==
    IF b.data = None \/ b.data[1].predictions = None
    THEN <<>> ELSE b.data[1].predictions[1]

(* A mutation of lines 215-216: a failed attempt leaves results as they were. *)
ResultsAfterPredict_KeepsOld(data, old, r, elapsed) ==
    IF IsSuccessData(data)
    THEN [results |-> Some(ResultDict(data[1], r, elapsed)),
          msgs |-> IF MismatchWarned(Len(PredsOf(data[1])), r)
                   THEN <<WarnMismatch(Len(PredsOf(data[1])), r)>> ELSE <<>>]
    ELSE [results |-> old, msgs |-> <<>>]

(* Lines 190-216: st.session_state.results after send_to_api returned      *)
(* `data`, and the warning emitted; `old` is the value it replaces.        *)
ResultsAfterPredict(data, old, r, elapsed) ==
    IF IsSuccessData(data)
    THEN [results |-> Some(ResultDict(data[1], r, elapsed)),
          msgs |-> IF MismatchWarned(Len(PredsOf(data[1])), r)
                   THEN <<WarnMismatch(Len(PredsOf(data[1])), r)>> ELSE <<>>]
    ELSE [results |-> None, msgs |-> <<>>]

----------------------------------------------------------------------------
(* The export table, lines 236-238: out_df = df.head(n).copy();            *)
(* out_df["Prediction"] = r["predictions"].  Column assignment sets the    *)
(* column named "Prediction": it replaces a column of that name and        *)
(* appends one otherwise; it raises (None) when the lengths differ.        *)

HasColumn(t, c) == \E j \in 1..Len(t.columns) : t.columns[j] = c

ColumnIndex(t, c) == CHOOSE j \in 1..Len(t.columns) : t.columns[j] = c

OutDf(t, r) ==
    LET n == Len(r.predictions)
        head == SubSeq(t.rows, 1, Min(n, Len(t.rows)))
    IN  IF Len(head) # n THEN None
        ELSE IF HasColumn(t, "Prediction")
        THEN Some([columns |-> t.columns,
                   rows |-> [i \in 1..n |->
                       [head[i] EXCEPT ![ColumnIndex(t, "Prediction")] =
                            r.predictions[i]]]])
        ELSE Some([columns |-> Append(t.columns, "Prediction"),
                   rows |-> [i \in 1..n |-> Append(head[i], r.predictions[i])]])

(* Lines 219-252: the table shown and offered for download *)
Rendered(d, res) == IF d # None /\ res # None THEN OutDf(d[1], res[1]) ELSE None

(* `not st.session_state.file_bytes`, line 178 *)
NoBytes(fb) == fb = None \/ fb[1].len = 0

----------------------------------------------------------------------------
(* main(), lines 121-292, when no request is sent: the empty state (df is  *)
(* None), a run without the button's trigger, or the trigger with no bytes *)
(* ("No file loaded.").                                                    *)
Render ==
    /\ pc = "content"
    /\ ~(df # None /\ clicked /\ ~NoBytes(file_bytes))
    /\ msgs' = IF df # None /\ clicked THEN Append(msgs, ErrNoFile) ELSE msgs
    /\ out_df' = Rendered(df, results)
    /\ buttonShown' = (df # None)
    /\ pc' = "idle"
    /\ UNCHANGED <<uploaded, file_bytes, df, results, widget, clicked, posted,
                   resp, resultsFor>>

(* main(), lines 121-292, when the button's trigger arrives and a file is  *)
(* loaded: the POST turns out as exchange x and takes `elapsed`.           *)
Predict(x, elapsed) ==
    /\ pc = "content"
    /\ df # None /\ clicked /\ ~NoBytes(file_bytes)
    /\ LET api == send_to_api(x)
           out == ResultsAfterPredict(api.data, results, Len(df[1].rows), elapsed)
       IN  /\ posted' = Some([filename |-> uploaded[1].file.name,
                              mime |-> detect_mime(uploaded[1].file.name),
                              body |-> file_bytes[1]])
           /\ resp' = Some(x)
           /\ results' = out.results
           /\ msgs' = msgs \o api.msgs \o out.msgs
           /\ out_df' = Rendered(df, out.results)
           /\ resultsFor' = IF out.results # None THEN uploaded ELSE resultsFor
    /\ buttonShown' = TRUE
    /\ pc' = "idle"
    /\ UNCHANGED <<uploaded, file_bytes, df, widget, clicked>>

Next ==
    \/ \E w \in WidgetValues, c \in BOOLEAN : Sidebar(w, c)
    \/ Render
    \/ \E x \in Exchanges, elapsed \in ElapsedTimes : Predict(x, elapsed)

Spec == Init /\ [][Next]_vars

----------------------------------------------------------------------------
(* Vocabulary of the claims *)

HasKind(m, kind) == \E i \in 1..Len(m) : m[i].kind = kind

HasErrorIn(m) == \E i \in 1..Len(m) : m[i].level = "error"

(* A Success response: the transport succeeded, the content type is JSON,  *)
(* the HTTP status is 200 and the body's status field is "success".        *)
Succeeded(x) ==
    /\ x.transport = "ok"
    /\ x.content_type = "application/json"
    /\ x.status_code = 200
    /\ x.json.kind = "dict"
    /\ x.json.status = Some("success")

(* The run that just ended made a prediction attempt. *)
Attempted == pc = "idle" /\ resp # None

RowCount == Len(df[1].rows)

(* The step is the upload handling of a run whose upload is a new file,    *)
(* or is removed.                                                          *)
UploadReplacedStep ==
    /\ pc = "idle" /\ pc' = "content"
    /\ \/ widget' = None
       \/ uploaded = None
       \/ widget'[1].file # uploaded[1].file

LoadFails(f) == load_df_from_bytes(f.bytes, f.name).df = None

(* The step loads a newly delivered upload, and the load fails. *)
FailedLoadStep ==
    /\ pc = "idle" /\ pc' = "content"
    /\ widget' # None /\ widget' # uploaded
    /\ LoadFails(widget'[1].file)

(* The step is a prediction attempt that does not end in a Success. *)
FailedAttemptStep ==
    /\ pc = "content" /\ pc' = "idle"
    /\ resp' # None
    /\ ~Succeeded(resp'[1])

----------------------------------------------------------------------------
(* C1: Reconcile.  After a prediction attempt that got a Success response  *)
(* with P predictions for a table of R rows, the stored predictions are    *)
(* exactly the first min(P, R) elements of the response's list, in order.  *)
C1_Reconcile ==
    (Attempted /\ Succeeded(resp[1])) =>
        /\ results # None
        /\ LET p == PredsOf(resp[1].json)
               kept == results[1].predictions
           IN  /\ Len(kept) = Min(Len(p), RowCount)
               /\ \A i \in 1..Len(kept) : kept[i] = p[i]

(* A Success with more predictions than rows was cut to the row count. *)
C1_Witness ==
    /\ Attempted /\ Succeeded(resp[1])
    /\ RowCount > 0
    /\ Len(PredsOf(resp[1].json)) > RowCount
    /\ results # None
    /\ Len(results[1].predictions) = RowCount

(* C2: Lifecycle.  The upload handling of a run whose upload is a new file *)
(* or is removed leaves results None and df either None (always so on      *)
(* removal) or the table the new upload encodes; and stored results are    *)
(* always those computed for the upload currently stored.                  *)
C2_Lifecycle ==
    /\ [](results # None => resultsFor = uploaded)
    /\ [][UploadReplacedStep =>
            /\ results' = None
            /\ widget' = None => df' = None
            /\ widget' # None => df' \in {None, widget'[1].file.bytes.table}]_vars

(* A table is loaded from an upload other than the one results were last   *)
(* computed for, and no results are stored.                                *)
C2_Witness ==
    /\ pc = "content"
    /\ widget # None /\ df # None
    /\ resultsFor # None /\ resultsFor[1].file # widget[1].file
    /\ results = None

(* C3: a failed prediction attempt (transport error, non-JSON response,    *)
(* non-200 status, or a 200 response that is no success) leaves results    *)
(* None and uploaded, file_bytes and df as they were, with a table loaded. *)
C3_FailedAttempt ==
    [][FailedAttemptStep =>
        /\ results' = None
        /\ uploaded' = uploaded /\ file_bytes' = file_bytes /\ df' = df
        /\ df' # None /\ file_bytes' # None /\ uploaded' # None]_vars

(* A failed attempt on the upload for which results had been computed. *)
C3_Witness ==
    /\ Attempted /\ ~Succeeded(resp[1])
    /\ results = None /\ df # None
    /\ resultsFor = uploaded

(* C4 as stated: every failing load or prediction attempt leaves the table *)
(* and the results that were there before it present and unchanged.        *)
C4_Original ==
    [][(FailedLoadStep \/ FailedAttemptStep) => (df' = df /\ results' = results)]_vars

(* C4 as amended: a failed prediction attempt leaves uploaded, file_bytes  *)
(* and the table unchanged and clears results; a failed load of a newly    *)
(* delivered upload stores that upload and its bytes and leaves no table   *)
(* and no results.                                                         *)
C4_Amended ==
    [][/\ FailedAttemptStep =>
            /\ uploaded' = uploaded /\ file_bytes' = file_bytes /\ df' = df
            /\ results' = None
       /\ FailedLoadStep =>
            /\ uploaded' = widget'
            /\ file_bytes' = Some(widget'[1].file.bytes)
            /\ df' = None
            /\ results' = None]_vars

(* A load failed, with its error reported, after results had been computed *)
(* for an earlier upload: neither a table nor results are left.            *)
C4_Witness ==
    /\ pc = "content"
    /\ widget # None /\ LoadFails(widget[1].file)
    /\ HasErrorIn(msgs)
    /\ resultsFor # None
    /\ df = None /\ results = None

(* C5 as stated: every load that ends without a table and every prediction *)
(* attempt that ends without results emits an error message in that run.   *)
C5_EveryErrorReported ==
    [][(FailedLoadStep \/ FailedAttemptStep) => HasErrorIn(msgs')]_vars

(* The response interpretation policy, with UsesDetail(b) saying when the  *)
(* detail of a JSON non-200 body b is what the failure reports.  After a   *)
(* prediction attempt with exchange x: results are stored only for a       *)
(* Success; a transport failure is reported as a network error whatever    *)
(* else x holds; otherwise a response that is not JSON is a failure        *)
(* reported with its status code and the first 400 characters of its body  *)
(* at most, whatever the status code; otherwise a decodable JSON response  *)
(* with a status other than 200 is a failure reported with the status code *)
(* and the detail (when UsesDetail) or the whole body.                     *)
InterpretedInOrder(UsesDetail(_)) ==
    Attempted =>
        LET x == resp[1] IN
        /\ results # None => Succeeded(x)
        /\ x.transport # "ok" =>
            /\ results = None
            /\ Len(msgs) = 1 /\ msgs[1].kind = "NetworkError"
        /\ (x.transport = "ok" /\ x.content_type # "application/json") =>
            /\ results = None
            /\ Len(msgs) = 1 /\ msgs[1].kind = "UnexpectedResponse"
            /\ msgs[1].status_code = x.status_code
            /\ msgs[1].excerpt_len <= 400
            /\ msgs[1].excerpt_len =
                  IF x.text_len <= 400 THEN x.text_len ELSE 400
        /\ ( /\ x.transport = "ok" /\ x.content_type = "application/json"
             /\ x.json.kind \in {"dict", "list", "empty_list"}
             /\ x.status_code # 200 ) =>
            /\ results = None
            /\ Len(msgs) = 1 /\ msgs[1].kind = "ApiError"
            /\ msgs[1].status_code = x.status_code
            /\ msgs[1].shown = IF UsesDetail(x.json) THEN "detail" ELSE "data"

DetailPresent(b) == b.kind = "dict" /\ b.detail # None

DetailNonEmpty(b) == b.kind = "dict" /\ b.detail # None /\ b.detail[1] # ""

(* C6 as stated: the interpretation order, a JSON non-200 failure          *)
(* reporting the body's detail field if present, else the whole body.      *)
C6_Original == InterpretedInOrder(DetailPresent)

(* C6 as amended: the interpretation order, a JSON non-200 failure         *)
(* reporting the body's detail field if it is present and not empty, else  *)
(* the whole body.                                                         *)
C6_Amended == InterpretedInOrder(DetailNonEmpty)

(* A 200 response that is not JSON, with a body longer than 400            *)
(* characters, was reported as a failure with an excerpt of 400.           *)
C6_Witness ==
    /\ Attempted
    /\ resp[1].transport = "ok" /\ resp[1].content_type # "application/json"
    /\ resp[1].status_code = 200 /\ resp[1].text_len > 400
    /\ results = None
    /\ Len(msgs) = 1 /\ msgs[1].excerpt_len = 400

(* C7: after a prediction attempt that got a Success response, results are *)
(* stored with the table still loaded and no error reported, and the       *)
(* mismatch warning is emitted exactly when the number of predictions      *)
(* differs from the number of rows.                                        *)
C7_MismatchWarns ==
    (Attempted /\ Succeeded(resp[1])) =>
        /\ results # None /\ df # None
        /\ ~HasErrorIn(msgs)
        /\ HasKind(msgs, "CountMismatch") <=>
               (Len(PredsOf(resp[1].json)) # RowCount)

(* A Success with fewer predictions than rows: results stored, warned. *)
C7_Witness ==
    /\ Attempted /\ Succeeded(resp[1])
    /\ Len(PredsOf(resp[1].json)) < RowCount
    /\ results # None
    /\ Len(results[1].predictions) = Len(PredsOf(resp[1].json))
    /\ HasKind(msgs, "CountMismatch")

(* C8 as stated: whenever a run ends with results stored, the export table *)
(* has len(predictions) rows, which are the first rows of the table with   *)
(* every original column unchanged, followed by an appended "Prediction"   *)
(* column holding predictions[i] at row i.                                 *)
C8_ExportAppends ==
    (pc = "idle" /\ results # None) =>
        /\ out_df # None
        /\ LET t == df[1]
               p == results[1].predictions
               o == out_df[1]
           IN  /\ Len(o.rows) = Len(p)
               /\ o.columns = Append(t.columns, "Prediction")
               /\ \A i \in 1..Len(p) : o.rows[i] = Append(t.rows[i], p[i])

(* C9 as stated: a run in which the upload is removed and the predict      *)
(* trigger arrives ends in Empty without a request, reporting "No file     *)
(* loaded."                                                                *)
C9_NoFileReported ==
    (pc = "idle" /\ widget = None /\ clicked) =>
        /\ uploaded = None /\ file_bytes = None /\ df = None /\ results = None
        /\ posted = None
        /\ HasKind(msgs, "NoFileLoaded")

(* The session invariant of C10. *)
SessionInvariant ==
    /\ results # None => (uploaded # None /\ file_bytes # None /\ df # None)
    /\ results # None => Len(results[1].predictions) <= RowCount
    /\ df # None => (file_bytes # None /\ file_bytes[1].len > 0)

(* The upload handling of a rerun whose upload is the file already stored. *)
UnchangedRerunStep ==
    /\ pc = "idle" /\ pc' = "content"
    /\ widget' # None /\ uploaded # None
    /\ widget'[1].file = uploaded[1].file

(* C10 as stated: the session invariant holds in every state, and a rerun  *)
(* with an unchanged upload leaves df and results unchanged.               *)
C10_SessionInvariant ==
    /\ []SessionInvariant
    /\ [][UnchangedRerunStep => (df' = df /\ results' = results)]_vars

====
